---------------------------- MODULE Spec2Model ----------------------------
(***************************************************************************)
(* CAT to Parquet extractor (src/src/CAT2PARQUET.py).                      *)
(*                                                                         *)
(* Text is modelled as sequences of one-character strings, a DataFrame as  *)
(* a record of column names, dtypes and rows, an Arrow table as a schema   *)
(* and rows.  process_folder is a state machine over the files of the      *)
(* input folder; read_cat_in_chunks is the generator it pulls chunks from. *)
(* Floating point values are exact decimals m * 10^-e.                     *)
(***************************************************************************)
EXTENDS Integers, Sequences, FiniteSets, TLC

VARIABLES
  table_type,      \* process_folder's table_type argument (characters)
  CHUNK_SIZE,      \* module level CHUNK_SIZE (1_000_000 in the source, small here)
  records_dtype,   \* dtype pandas gives the columns of DataFrame.from_records
  total_files,     \* len(cat_files)
  cat_files,       \* per file, the raw lines read from it so far
  index,           \* enumerate(cat_files, start=1) position
  buffer,          \* read_cat_in_chunks: buffer
  gen,             \* read_cat_in_chunks: where the generator is suspended
  yielded,         \* read_cat_in_chunks: per file, the chunks yielded from it
  chunk,           \* process_folder: chunk (the yielded chunk, then the filtered one)
  arrow_schema,    \* process_folder: arrow_schema
  parquet_writer,  \* process_folder: parquet_writer (None, open, closed)
  written,         \* the tables handed to parquet_writer.write_table, in order
  close_calls,     \* number of parquet_writer.close() calls
  pc,              \* position of process_folder
  error,           \* exception that ended the run, if any
  line,            \* split_fixed_width: line argument (decoder specification)
  fields           \* split_fixed_width: returned dict (decoder specification)

vars == << table_type, CHUNK_SIZE, records_dtype, total_files, cat_files, index,
           buffer, gen, yielded, chunk, arrow_schema, parquet_writer, written,
           close_calls, pc, error, line, fields >>

None == "None"
NoSchema == << >>                                  \* arrow_schema = None
NoFields == [ keys |-> << >>, values |-> << >> ]   \* nothing decoded yet

-----------------------------------------------------------------------------
(* Bounds of the model.                                                    *)

MaxFiles == 2       \* .cat files in the input folder
MaxLines == 3       \* lines read over the whole run
MaxChunk == 2       \* largest CHUNK_SIZE tried
MaxLineLen == 945   \* longest line handed to split_fixed_width alone

-----------------------------------------------------------------------------
(* SUPPORTED_TABLES and get_table_config.                                  *)

T11 == << "1", "1" >>
T13 == << "1", "3" >>
T14 == << "1", "4" >>
T15 == << "1", "5" >>
T16 == << "1", "6" >>
T17 == << "1", "7" >>

SUPPORTED_TABLES == { T11, T13, T14, T15, T16, T17 }

Config11 ==
  [ positions |-> <<
      2, 23, 25, 28, 30, 44, 50, 52, 77, 80, 83, 123, 153, 158, 163, 188, 192, 193,
      197, 198, 203, 207, 215, 240, 245, 247, 250, 252, 255, 260, 265, 295, 305, 312,
      319, 326, 333, 342, 352, 581, 601, 666 >>,
    columns |-> <<
      "tipo_reg", "unused0", "cd", "cmc", "cn", "pc", "unused1", "cp", "np", "cmc2",
      "cm", "nm", "nem", "cv", "tv", "nv", "pnp", "plp", "snp", "slp", "km", "bl",
      "unused2", "td", "dp", "dm", "cma", "czc", "cpo", "cpa", "cpaj", "npa", "sup",
      "sct", "ssr", "sbr", "sc", "xcen", "ycen", "unused3", "rc_bice", "n_bice", "srs" >>,
    drop_cols |-> {
      "n_bice", "rc_bice", "unused0", "unused1", "unused2", "unused3" },
    numeric_cols |-> << "sup", "sct", "ssr", "sbr", "sc" >>,
    centroid_cols |-> << "xcen", "ycen" >>,
    percent_cols |-> <<
 >> ]

Config13 ==
  [ positions |-> <<
      2, 23, 25, 28, 30, 44, 48, 50, 52, 77, 80, 83, 123, 153, 158, 163, 188, 192, 193,
      197, 198, 203, 215, 240, 295, 299, 300, 307, 312, 409 >>,
    columns |-> <<
      "tipo_reg", "UNUSED0", "cd", "cmc", "cn", "pc", "cuc", "UNUSED1", "cp", "np",
      "cmc2", "cm", "nm", "nem", "cv", "tv", "nv", "pnp", "plp", "snp", "slp", "km",
      "UNUSED2", "td", "UNUSED3", "ac", "iacons", "so", "lf", "UNUSED4", "cucm" >>,
    drop_cols |-> {
      "cucm", "UNUSED0", "UNUSED1", "UNUSED2", "UNUSED3", "UNUSED4", "LineaCAT" },
    numeric_cols |-> <<  >>,
    centroid_cols |-> <<  >>,
    percent_cols |-> <<
 >> ]

Config14 ==
  [ positions |-> <<
      2, 23, 25, 28, 30, 44, 48, 50, 54, 58, 62, 64, 67, 70, 73, 74, 78, 82, 83, 90,
      97, 104, 109, 111 >>,
    columns |-> <<
      "tipo_reg", "UNUSED0", "cd", "cmc", "UNUSED1", "pc", "noec", "UNUSED2", "nobf",
      "cuc", "bl", "es", "pt", "pu", "cd2", "tr", "ar", "aec", "ili", "stl", "spt",
      "sil", "tip", "UNUSED3", "modl" >>,
    drop_cols |-> {
      "modl", "UNUSED0", "UNUSED1", "UNUSED2", "UNUSED3", "LineaCAT" },
    numeric_cols |-> <<  >>,
    centroid_cols |-> <<  >>,
    percent_cols |-> <<
 >> ]

Config15 ==
  [ positions |-> <<
      2, 23, 25, 28, 30, 44, 48, 49, 50, 58, 73, 92, 94, 119, 122, 125, 165, 195, 200,
      205, 230, 234, 235, 239, 240, 245, 249, 251, 254, 257, 282, 287, 289, 292, 294,
      297, 302, 307, 337, 367, 371, 375, 427, 428, 441, 451, 461 >>,
    columns |-> <<
      "tipo_reg", "UNUSED0", "cd", "cmc", "cn", "pc", "car", "cc1", "cc2", "nfbi",
      "iia", "nfv", "cp", "np", "cmc2", "cm", "nm", "nem", "cv", "tv", "nv", "pnp",
      "plp", "snp", "slp", "km", "bl", "es", "pt", "pu", "td", "dp", "dm", "cma",
      "czc", "cpo", "cpa", "cpaj", "npa", "UNUSED1", "noe", "ant", "UNUSED2",
      "grbice/coduso", "UNUSED3", "sfc", "sfs", "cpt" >>,
    drop_cols |-> {
      "cpt", "UNUSED0", "UNUSED1", "UNUSED2", "UNUSED3", "LineaCAT" },
    numeric_cols |-> <<  >>,
    centroid_cols |-> <<  >>,
    percent_cols |-> <<
 >> ]

Config16 ==
  [ positions |-> <<
      2, 23, 25, 28, 30, 44, 48, 50, 54, 58, 64, 113, 117, 123, 172, 176, 182, 231,
      235, 241, 290, 294, 300, 349, 353, 359, 408, 412, 418, 467, 471, 477, 526, 530,
      536, 585, 589, 595, 644, 648, 654, 703, 707, 713, 762, 766, 772, 821, 825, 831,
      880, 884, 890, 939 >>,
    columns |-> <<
      "tipo_reg", "UNUSED0", "cd", "cmc", "UNUSED1", "pc", "noev", "ccsp", "nreg",
      "nc1", "pr1", "UNUSED3", "nc2", "pr2", "UNUSED4", "nc3", "pr3", "UNUSED5", "nc4",
      "pr4", "UNUSED6", "nc5", "pr5", "UNUSED7", "nc6", "pr6", "UNUSED8", "nc7", "pr7",
      "UNUSED9", "nc8", "pr8", "UNUSED10", "nc9", "pr9", "UNUSED11", "nc10", "pr10",
      "UNUSED12", "nc11", "pr11", "UNUSED13", "nc12", "pr12", "UNUSED14", "nc13",
      "pr13", "UNUSED15", "nc14", "pr14", "UNUSED16", "nc15", "pr15", "UNUSED17" >>,
    drop_cols |-> {
      "UNUSED0", "UNUSED1", "UNUSED2", "UNUSED3", "UNUSED4", "UNUSED5", "UNUSED6",
      "UNUSED7", "UNUSED8", "UNUSED9", "UNUSED10", "UNUSED11", "UNUSED12", "UNUSED13",
      "UNUSED14", "UNUSED15", "UNUSED16", "UNUSED17", "LineaCAT" },
    numeric_cols |-> <<  >>,
    centroid_cols |-> <<  >>,
    percent_cols |-> <<
      "pr1", "pr2", "pr3", "pr4", "pr5", "pr6", "pr7", "pr8", "pr9", "pr10", "pr11",
      "pr12", "pr13", "pr14", "pr15" >> ]

Config17 ==
  [ positions |-> <<
      2, 23, 25, 28, 30, 44, 48, 50, 54, 55, 65, 67, 107, 109, 126 >>,
    columns |-> <<
      "tipo_reg", "UNUSED0", "cd", "cmc", "cn", "pc", "cspr", "UNUSED1", "nobf",
      "tspr", "ssp", "ccc", "dcc", "ip", "UNUSED2", "modl" >>,
    drop_cols |-> {
      "modl", "UNUSED0", "UNUSED1", "UNUSED2", "LineaCAT" },
    numeric_cols |-> <<  >>,
    centroid_cols |-> <<  >>,
    percent_cols |-> <<
 >> ]
get_table_config(t) ==
  IF t = T11 THEN Config11
  ELSE IF t = T13 THEN Config13
  ELSE IF t = T14 THEN Config14
  ELSE IF t = T15 THEN Config15
  ELSE IF t = T16 THEN Config16
  ELSE IF t = T17 THEN Config17
  ELSE "NotImplementedError"

-----------------------------------------------------------------------------
(* Python text primitives.                                                 *)

Min(a, b) == IF a <= b THEN a ELSE b
Max(a, b) == IF a >= b THEN a ELSE b

\* str.strip() with no argument removes these from both ends.
WHITESPACE == { " ", "\t", "\n", "\r" }

\* s[lo:hi] for 0 <= lo, 0 <= hi: indices past the end are clamped.
PySlice(s, lo, hi) ==
  LET h == Min(hi, Len(s))
  IN  IF lo >= h THEN << >> ELSE SubSeq(s, lo + 1, h)

Blank(s) == \A i \in 1..Len(s) : s[i] \in WHITESPACE

\* index of the first and of the last character of s that is no whitespace
FirstInk(s) ==
  CHOOSE i \in 1..Len(s) :
    s[i] \notin WHITESPACE /\ \A j \in 1..(i - 1) : s[j] \in WHITESPACE

LastInk(s) ==
  CHOOSE i \in 1..Len(s) :
    s[i] \notin WHITESPACE /\ \A j \in (i + 1)..Len(s) : s[j] \in WHITESPACE

\* str.lstrip(): only the left end is cleaned.
lstrip(s) == IF Blank(s) THEN << >> ELSE SubSeq(s, FirstInk(s), Len(s))

\* str.strip()
strip(s) == IF Blank(s) THEN << >> ELSE SubSeq(s, FirstInk(s), LastInk(s))

RECURSIVE LastNotNewline(_, _)
LastNotNewline(s, i) ==
  IF i < 1 THEN i
  ELSE IF s[i] # "\n" THEN i ELSE LastNotNewline(s, i - 1)

\* line.rstrip("\n")
rstrip_newline(s) == SubSeq(s, 1, LastNotNewline(s, Len(s)))

\* Faulty variant of startswith: only the first character is compared.
startswith_first_char(s, prefix) ==
  Len(s) >= 1 /\ Len(prefix) >= 1 /\ s[1] = prefix[1]

\* str.startswith(prefix)
startswith(s, prefix) ==
  Len(s) >= Len(prefix) /\ SubSeq(s, 1, Len(prefix)) = prefix

-----------------------------------------------------------------------------
(* split_fixed_width.                                                      *)

\* A sequence given by a rule, evaluated once.
Eager(s) == SubSeq(s, 1, Len(s))

\* Faulty variant of split_values: lstrip() in place of strip().
split_values_lstrip(ln, positions) ==
  LET positions_full == << 0 >> \o positions \o << Len(ln) >>
  IN  Eager([ i \in 1..(Len(positions_full) - 1) |->
                lstrip(PySlice(ln, positions_full[i], positions_full[i + 1])) ])

\* line[positions_full[i]:positions_full[i + 1]].strip() for every i
split_values(ln, positions) ==
  LET positions_full == << 0 >> \o positions \o << Len(ln) >>
  IN  Eager([ i \in 1..(Len(positions_full) - 1) |->
                strip(PySlice(ln, positions_full[i], positions_full[i + 1])) ])

\* dict(zip(columns, values)): zip stops at the shorter argument; the keys are
\* in insertion order and a repeated key keeps its last value.
RECURSIVE dict_keys(_, _, _, _)
dict_keys(columns, n, i, acc) ==
  IF i > n THEN acc
  ELSE IF \E j \in 1..Len(acc) : acc[j] = columns[i]
       THEN dict_keys(columns, n, i + 1, acc)
       ELSE dict_keys(columns, n, i + 1, Append(acc, columns[i]))

dict_zip(columns, values) ==
  LET n == Min(Len(columns), Len(values))
      distinct == Cardinality({ columns[i] : i \in 1..n }) = n
      keys == IF distinct THEN SubSeq(columns, 1, n)
              ELSE dict_keys(columns, n, 1, << >>)
      last(c) == CHOOSE i \in 1..n :
                   columns[i] = c /\ \A j \in (i + 1)..n : columns[j] # c
  IN  [ keys |-> keys,
        values |-> IF distinct THEN SubSeq(values, 1, n)
                   ELSE Eager([ k \in 1..Len(keys) |-> values[last(keys[k])] ]) ]

split_fixed_width(ln, positions, columns) ==
  dict_zip(columns, split_values(ln, positions))

-----------------------------------------------------------------------------
(* pandas and pyarrow values.                                              *)
(* A cell is text, null (None, NaN, pd.NA) or a number m * 10^-e.          *)

Str(s) == [ k |-> "str", s |-> s, m |-> 0, e |-> 0 ]
NA == [ k |-> "null", s |-> << >>, m |-> 0, e |-> 0 ]

RECURSIVE Num(_, _)
Num(m, e) ==
  IF e > 0 /\ m % 10 = 0 THEN Num(m \div 10, e - 1)
  ELSE [ k |-> "num", s |-> << >>, m |-> m, e |-> e ]

DIGITS == << "0", "1", "2", "3", "4", "5", "6", "7", "8", "9" >>

IsDigit(c) == \E d \in 1..10 : DIGITS[d] = c
DigitValue(c) == (CHOOSE d \in 1..10 : DIGITS[d] = c) - 1

RECURSIVE DigitsToInt(_, _, _)
DigitsToInt(s, i, acc) ==
  IF i > Len(s) THEN acc
  ELSE IF s[i] = "." THEN DigitsToInt(s, i + 1, acc)
  ELSE DigitsToInt(s, i + 1, 10 * acc + DigitValue(s[i]))

\* pd.to_numeric(..., errors="coerce") on one text value: an integer literal,
\* a decimal literal, or NaN for anything else.  The fields of the model's
\* lines hold digits, ".", letters and blanks only (no sign, no exponent), and
\* at most 10 digits, which int64 holds.
to_numeric_value(s) ==
  LET dots == { i \in 1..Len(s) : s[i] = "." }
      wellformed == /\ \A i \in 1..Len(s) : IsDigit(s[i]) \/ s[i] = "."
                    /\ Cardinality(dots) <= 1
                    /\ \E i \in 1..Len(s) : IsDigit(s[i])
  IN  IF ~wellformed THEN [ cell |-> NA, isint |-> FALSE ]
      ELSE IF dots = {} THEN [ cell |-> Num(DigitsToInt(s, 1, 0), 0), isint |-> TRUE ]
      ELSE LET d == CHOOSE i \in dots : TRUE
           IN  [ cell |-> Num(DigitsToInt(s, 1, 0), Len(s) - d), isint |-> FALSE ]

\* pd.DataFrame.from_records(records): the keys of the records in order, every
\* column of the dtype this pandas gives a column of Python strings: object
\* before pandas 3, the string dtype (which equals "string") from pandas 3 on.
from_records(records, dtype) ==
  LET cols == records[1].keys
  IN  [ columns |-> cols,
        dtypes |-> Eager([ i \in 1..Len(cols) |-> dtype ]),
        rows |-> Eager([ r \in 1..Len(records) |->
                   Eager([ i \in 1..Len(cols) |-> Str(records[r].values[i]) ]) ]) ]

\* position of a column of the frame
column_index(df, col) == CHOOSE i \in 1..Len(df.columns) : df.columns[i] = col

\* df[col] = pd.to_numeric(df[col], errors="coerce") [* 10^-scale]
\* The result is int64 when every value is an integer literal and nothing is
\* multiplied, float64 otherwise.
to_numeric_column(df, col, scale, scaled) ==
  LET j == column_index(df, col)
      parsed == Eager([ r \in 1..Len(df.rows) |-> to_numeric_value(df.rows[r][j].s) ])
      allint == \A r \in 1..Len(df.rows) : parsed[r].isint
      conv(p) == IF p.cell.k = "null" THEN NA ELSE Num(p.cell.m, p.cell.e + scale)
  IN  [ df EXCEPT
          !.dtypes[j] = IF allint /\ ~scaled THEN "int64" ELSE "float64",
          !.rows = Eager([ r \in 1..Len(df.rows) |->
                     [ df.rows[r] EXCEPT ![j] = conv(parsed[r]) ] ]) ]

RECURSIVE to_numeric_columns(_, _, _, _, _)
to_numeric_columns(df, cols, i, scale, scaled) ==
  IF i > Len(cols) THEN df
  ELSE to_numeric_columns(to_numeric_column(df, cols[i], scale, scaled),
                          cols, i + 1, scale, scaled)

\* df.drop(columns=drop_cols, inplace=True, errors="ignore")
drop(df, drop_cols) ==
  LET kept(i) == df.columns[i] \notin drop_cols
      idx == SelectSeq(Eager([ i \in 1..Len(df.columns) |-> i ]), kept)
  IN  [ columns |-> Eager([ k \in 1..Len(idx) |-> df.columns[idx[k]] ]),
        dtypes |-> Eager([ k \in 1..Len(idx) |-> df.dtypes[idx[k]] ]),
        rows |-> Eager([ r \in 1..Len(df.rows) |->
                   Eager([ k \in 1..Len(idx) |-> df.rows[r][idx[k]] ]) ]) ]

\* col.str.strip().replace("", pd.NA)
strip_replace(cell) ==
  IF cell.k = "str"
  THEN (IF strip(cell.s) = << >> THEN NA ELSE Str(strip(cell.s)))
  ELSE cell

\* df.apply(lambda col: ... if col.dtype == "string" else col)
normalize_strings(df) ==
  [ df EXCEPT
      !.rows = Eager([ r \in 1..Len(df.rows) |->
                 Eager([ i \in 1..Len(df.columns) |->
                   IF df.dtypes[i] = "string"
                   THEN strip_replace(df.rows[r][i])
                   ELSE df.rows[r][i] ]) ]) ]

\* pa.Table.from_pandas(df, preserve_index=False)
arrow_type(dtype) ==
  IF dtype = "int64" THEN "int64"
  ELSE IF dtype = "float64" THEN "double"
  ELSE "string"

from_pandas(df) ==
  [ schema |-> Eager([ i \in 1..Len(df.columns) |->
                 [ name |-> df.columns[i], type |-> arrow_type(df.dtypes[i]) ] ]),
    rows |-> df.rows ]

\* One value cast to a column type (safe cast): a double with a fraction has no
\* int64 value, text is no number.
castable(cell, to) ==
  \/ cell.k = "null"
  \/ cell.k = "str" /\ to = "string"
  \/ cell.k = "num" /\ to = "double"
  \/ cell.k = "num" /\ to = "int64" /\ cell.e = 0

schema_names(schema) == [ i \in 1..Len(schema) |-> schema[i].name ]

\* Faulty variant of cast: the batch is passed on as it is.
cast_unchecked(table, schema) == [ ok |-> TRUE, table |-> table ]

\* table.cast(arrow_schema): the table under the target schema, or ArrowInvalid.
\* The names must be those of the schema, in order; the values are cast safely.
cast(table, schema) ==
  LET ok == /\ schema_names(table.schema) = schema_names(schema)
            /\ \A r \in 1..Len(table.rows) : \A i \in 1..Len(schema) :
                 castable(table.rows[r][i], schema[i].type)
  IN  [ ok |-> ok,
        table |-> IF ok THEN [ schema |-> schema, rows |-> table.rows ] ELSE table ]

-----------------------------------------------------------------------------
(* The body of process_folder's chunk loop.                                *)

\* chunk[chunk["LineaCAT"].str.startswith(table_type)]
filter_chunk(ch, t) ==
  LET match(l) == startswith(l, t)
  IN  SelectSeq(ch, match)

\* records ... pa.Table.from_pandas(df): lines 271-299
build_table(lines, config, dtype) ==
  LET records == Eager([ i \in 1..Len(lines) |->
                     split_fixed_width(lines[i], config.positions, config.columns) ])
      df0 == from_records(records, dtype)
      df1 == to_numeric_columns(df0, config.numeric_cols, 1, 0, FALSE)
      df2 == to_numeric_columns(df1, config.centroid_cols, 1, 2, TRUE)
      df3 == to_numeric_columns(df2, config.percent_cols, 1, 3, TRUE)
      df4 == drop(df3, config.drop_cols)
      df5 == normalize_strings(df4)
  IN  from_pandas(df5)

-----------------------------------------------------------------------------
(* Input lines of the runs: raw lines as the file iterator returns them.   *)

Spaces(n) == [ i \in 1..n |-> " " ]

\* txt written at 0-based offset pos of base, blank padded.
PutAt(base, pos, txt) ==
  [ i \in 1..Max(Len(base), pos + Len(txt)) |->
      IF i > pos /\ i <= pos + Len(txt) THEN txt[i - pos]
      ELSE IF i <= Len(base) THEN base[i] ELSE " " ]

\* type 11, cd "AA", sup 0000000005, xcen 000012345
LINE_11_INT ==
  PutAt(PutAt(PutAt(T11, 23, << "A", "A" >>),
              295, << "0", "0", "0", "0", "0", "0", "0", "0", "0", "5" >>),
        333, << "0", "0", "0", "0", "1", "2", "3", "4", "5" >>)

\* type 11, cd "BB", sup 00000012.5, ends after sup
LINE_11_DEC ==
  PutAt(PutAt(T11, 23, << "B", "B" >>),
        295, << "0", "0", "0", "0", "0", "0", "1", "2", ".", "5" >>)

\* type 11 followed by blanks only
LINE_11_BLANK == T11 \o Spaces(28)

\* type 13, cd "CC", pc "x y"
LINE_13 == PutAt(PutAt(T13, 23, << "C", "C" >>), 31, << "x", " ", "y" >>)

\* Record types requested in the runs.
RunTables == { T11, T13 }

\* The raw lines a file of a run is made of: for table 11 the three lines of
\* its type, for table 13 a line of its type, a line of another type and a line
\* of its type that no newline ends (the last line of a file).
RawLines(t) ==
  IF t = T11
  THEN { l \o << "\n" >> : l \in { LINE_11_INT, LINE_11_DEC, LINE_11_BLANK } }
  ELSE { LINE_13 \o << "\n" >>, LINE_11_INT \o << "\n" >>, LINE_13 }

-----------------------------------------------------------------------------
(* process_folder and read_cat_in_chunks as a state machine.               *)

LinesRead == LET RECURSIVE Sum(_)
                 Sum(i) == IF i = 0 THEN 0 ELSE Len(cat_files[i]) + Sum(i - 1)
             IN  Sum(Len(cat_files))

Init ==
  /\ table_type \in RunTables
  /\ CHUNK_SIZE \in 1..MaxChunk
  /\ records_dtype \in { "object", "string" }
  /\ total_files \in 0..MaxFiles
  /\ cat_files = [ i \in 1..total_files |-> << >> ]
  /\ index = 0
  /\ buffer = << >>
  /\ gen = "unstarted"
  /\ yielded = [ i \in 1..total_files |-> << >> ]
  /\ chunk = << >>
  /\ arrow_schema = NoSchema
  /\ parquet_writer = None
  /\ written = << >>
  /\ close_calls = 0
  /\ pc = "start"
  /\ error = None
  /\ line = << >>
  /\ fields = NoFields

decoder_vars == << line, fields >>
run_params == << table_type, CHUNK_SIZE, records_dtype, total_files >>
sink_vars == << arrow_schema, parquet_writer, written, close_calls >>

\* lines 249-258: config, glob, the empty folder check
Start ==
  /\ pc = "start"
  /\ IF total_files = 0
     THEN pc' = "failed" /\ error' = "ValueError"
     ELSE pc' = "next_file" /\ error' = error
  /\ UNCHANGED << run_params, cat_files, index, buffer, gen, yielded, chunk,
                  sink_vars, decoder_vars >>

\* line 260: the next file, or the end of the loop; line 264 starts its generator
NextFile ==
  /\ pc = "next_file"
  /\ index < total_files
  /\ index' = index + 1
  /\ buffer' = << >>
  /\ gen' = "running"
  /\ pc' = "read"
  /\ UNCHANGED << run_params, cat_files, yielded, chunk, sink_vars, error,
                  decoder_vars >>

\* The file iterator returns the text up to and with the next newline; only
\* the last line of a file can lack it.
ends_with_newline(raw) == raw # << >> /\ raw[Len(raw)] = "\n"

\* Faulty variant of buffer_full: > in place of ==.
buffer_full_late(buf, size) == Len(buf) > size

\* len(buffer) == CHUNK_SIZE
buffer_full(buf, size) == Len(buf) = size

\* lines 233-236: one line of the file is read; a full buffer is yielded
ReadLine(raw) ==
  /\ pc = "read"
  /\ LinesRead < MaxLines
  /\ \A i \in 1..Len(cat_files[index]) : ends_with_newline(cat_files[index][i])
  /\ cat_files' = [ cat_files EXCEPT ![index] = Append(@, raw) ]
  /\ buffer' = Append(buffer, rstrip_newline(raw))
  /\ IF buffer_full(buffer', CHUNK_SIZE)
     THEN /\ chunk' = buffer'
          /\ yielded' = [ yielded EXCEPT ![index] = Append(@, buffer') ]
          /\ gen' = "yield_full"
          /\ pc' = "process"
     ELSE UNCHANGED << chunk, yielded, gen, pc >>
  /\ UNCHANGED << run_params, index, sink_vars, error, decoder_vars >>

\* lines 239-240: the end of the file, the last partial chunk is yielded
EndOfFile ==
  /\ pc = "read"
  /\ IF buffer # << >>
     THEN /\ chunk' = buffer
          /\ yielded' = [ yielded EXCEPT ![index] = Append(@, buffer) ]
          /\ gen' = "yield_final"
          /\ pc' = "process"
     ELSE /\ gen' = "exhausted"
          /\ pc' = "next_file"
          /\ UNCHANGED << chunk, yielded >>
  /\ UNCHANGED << run_params, cat_files, index, buffer, sink_vars, error,
                  decoder_vars >>

\* an I/O error raised while the file is read (line 233)
ReadError ==
  /\ pc = "read"
  /\ pc' = "failed"
  /\ error' = "OSError reading"
  /\ UNCHANGED << run_params, cat_files, index, buffer, gen, yielded, chunk,
                  sink_vars, decoder_vars >>

\* Faulty variant of buffer_clear: the buffer is not cleared.
buffer_kept(buf) == buf

\* buffer.clear()
buffer_clear(buf) == << >>

\* The loop asks the generator for its next chunk: after a full chunk it
\* clears the buffer and reads on (line 237), after the last one it ends.
Resume ==
  IF gen = "yield_full"
  THEN /\ buffer' = buffer_clear(buffer)
       /\ gen' = "running"
       /\ pc' = "read"
  ELSE /\ buffer' = buffer
       /\ gen' = "exhausted"
       /\ pc' = "next_file"

\* lines 266-269: no line of the chunk matches, continue
SkipChunk(flt) ==
  /\ flt = << >>
  /\ Resume
  /\ UNCHANGED << sink_vars, error >>

\* lines 271-312: the batch is cast to the schema and written
WriteChunk(flt, schema, res) ==
  /\ flt # << >>
  /\ res.ok
  /\ arrow_schema' = schema
  /\ parquet_writer' = "open"
  /\ written' = Append(written, res.table)
  /\ Resume
  /\ UNCHANGED << close_calls, error >>

\* line 309 raises: the batch has no value of a column's type
CastFail(flt, res) ==
  /\ flt # << >>
  /\ ~res.ok
  /\ pc' = "failed"
  /\ error' = "ArrowInvalid"
  /\ UNCHANGED << buffer, gen, sink_vars >>

\* line 310 raises: an I/O error while the batch is written
WriteError(flt, schema, res) ==
  /\ flt # << >>
  /\ res.ok
  /\ arrow_schema' = schema
  /\ parquet_writer' = "open"
  /\ pc' = "failed"
  /\ error' = "OSError writing"
  /\ UNCHANGED << buffer, gen, written, close_calls >>

\* lines 264-312: the body of the chunk loop, every way it can end
ProcessChunk ==
  /\ pc = "process"
  /\ LET flt == filter_chunk(chunk, table_type)
         tbl == build_table(flt, get_table_config(table_type), records_dtype)
         schema == IF arrow_schema = NoSchema THEN tbl.schema ELSE arrow_schema
         res == cast(tbl, schema)
     IN  /\ chunk' = flt
         /\ \/ SkipChunk(flt)
            \/ WriteChunk(flt, schema, res)
            \/ CastFail(flt, res)
            \/ WriteError(flt, schema, res)
  /\ UNCHANGED << run_params, cat_files, index, yielded, decoder_vars >>

\* lines 314-317: after the last file
Finish ==
  /\ pc = "next_file"
  /\ index = total_files
  /\ IF parquet_writer # None
     THEN parquet_writer' = "closed" /\ close_calls' = close_calls + 1
     ELSE UNCHANGED << parquet_writer, close_calls >>
  /\ pc' = "done"
  /\ UNCHANGED << run_params, cat_files, index, buffer, gen, yielded, chunk,
                  arrow_schema, written, error, decoder_vars >>

Next ==
  \/ Start
  \/ NextFile
  \/ \E raw \in RawLines(table_type) : ReadLine(raw)
  \/ EndOfFile
  \/ ReadError
  \/ ProcessChunk
  \/ Finish

Spec == Init /\ [][Next]_vars

-----------------------------------------------------------------------------
(* split_fixed_width on its own: any supported layout, lines of every      *)
(* length up to MaxLineLen.                                                *)

\* A line of n characters: blanks (spaces or tabs) in runs of two out of
\* every period characters, letters elsewhere; period 1 is a blank line.
PatternLine(n, period) ==
  [ i \in 1..n |->
      IF i % period <= 1 THEN (IF i % 2 = 0 THEN " " ELSE "\t")
      ELSE IF i % 3 = 0 THEN "x" ELSE "y" ]

Periods == { 1, 5 }

InitDecode ==
  /\ table_type \in SUPPORTED_TABLES
  /\ \E n \in 0..MaxLineLen : \E p \in Periods : line = PatternLine(n, p)
  /\ fields = NoFields
  /\ pc = "decode"
  /\ CHUNK_SIZE = 1
  /\ records_dtype = "object"
  /\ total_files = 0
  /\ cat_files = << >>
  /\ index = 0
  /\ buffer = << >>
  /\ gen = "unstarted"
  /\ yielded = << >>
  /\ chunk = << >>
  /\ arrow_schema = NoSchema
  /\ parquet_writer = None
  /\ written = << >>
  /\ close_calls = 0
  /\ error = None

\* lines 272-276: one line decoded under the layout of the table
Decode ==
  /\ pc = "decode"
  /\ LET config == get_table_config(table_type)
     IN  fields' = split_fixed_width(line, config.positions, config.columns)
  /\ pc' = "decoded"
  /\ UNCHANGED << run_params, cat_files, index, buffer, gen, yielded, chunk,
                  sink_vars, error, line >>

SpecDecode == InitDecode /\ [][Decode]_vars

-----------------------------------------------------------------------------
(* What the properties below are stated with: the lines of the files, the  *)
(* chunks and the fields, computed from positions and characters alone.    *)

\* A raw line without the newline that ends it.
Content(raw) ==
  IF raw # << >> /\ raw[Len(raw)] = "\n" THEN SubSeq(raw, 1, Len(raw) - 1) ELSE raw

FileLines(f) == [ i \in 1..Len(cat_files[f]) |-> Content(cat_files[f][i]) ]

\* The first Len(t) characters of l are t.
MatchesType(l, t) == Len(l) >= Len(t) /\ \A j \in 1..Len(t) : l[j] = t[j]

RECURSIVE Matching(_, _, _)
Matching(lines, t, i) ==
  IF i > Len(lines) THEN << >>
  ELSE (IF MatchesType(lines[i], t) THEN << lines[i] >> ELSE << >>)
       \o Matching(lines, t, i + 1)

HasMatch(lines, t) == \E i \in 1..Len(lines) : MatchesType(lines[i], t)

RECURSIVE Flatten(_, _)
Flatten(seqs, i) == IF i > Len(seqs) THEN << >> ELSE seqs[i] \o Flatten(seqs, i + 1)

\* Every chunk yielded so far, over all files, in order.
YieldedAll == Flatten(yielded, 1)
LastYielded == YieldedAll[Len(YieldedAll)]

\* The yielded chunks the loop body has finished with.
NumProcessed == Len(YieldedAll) - (IF pc = "process" THEN 1 ELSE 0)
ProcessedWithMatch ==
  { i \in 1..NumProcessed : HasMatch(YieldedAll[i], table_type) }
ProcessedWithoutMatch ==
  { i \in 1..NumProcessed : ~HasMatch(YieldedAll[i], table_type) }

\* Every row written so far, in order.
AllRows == Flatten([ b \in 1..Len(written) |-> written[b].rows ], 1)

\* Every line of the requested type, file after file, in line order.
MatchingLines ==
  Flatten([ f \in 1..Len(cat_files) |-> Matching(FileLines(f), table_type, 1) ], 1)

\* The characters of ln at the 0-based positions lo <= p < hi that exist.
Span(ln, lo, hi) == [ j \in 1..(Min(hi, Len(ln)) - lo) |-> ln[lo + j] ]

\* v is span without the whitespace at its two ends.
IsStripOf(v, span) ==
  /\ v # << >> => v[1] \notin WHITESPACE /\ v[Len(v)] \notin WHITESPACE
  /\ \E a \in 0..(Len(span) - Len(v)) :
       /\ \A i \in 1..a : span[i] \in WHITESPACE
       /\ \A i \in 1..Len(v) : span[a + i] = v[i]
       /\ \A i \in (a + Len(v) + 1)..Len(span) : span[i] \in WHITESPACE

Config == get_table_config(table_type)
Offsets(ln) == << 0 >> \o Config.positions \o << Len(ln) >>
Names(s) == { s[i] : i \in 1..Len(s) }

\* A cell holds a value of the column type.
Conforms(cell, type) ==
  \/ cell.k = "null"
  \/ type = "string" /\ cell.k = "str"
  \/ type = "double" /\ cell.k = "num"
  \/ type = "int64" /\ cell.k = "num" /\ cell.e = 0

-----------------------------------------------------------------------------
(* Properties of the runs (Spec).                                          *)

\* C1: a run that has opened the Parquet writer ends, by completion or by an
\* error, with close() called exactly once and the writer closed.
C1_ClosedOnEveryExit ==
  (pc \in { "done", "failed" } /\ parquet_writer # None)
    => (close_calls = 1 /\ parquet_writer = "closed")

\* The first chunk of the run that holds a line of the requested type: the
\* chunk of CHUNK_SIZE lines around the first such line.
FirstMatchFile ==
  CHOOSE f \in 1..Len(cat_files) :
    /\ HasMatch(FileLines(f), table_type)
    /\ \A g \in 1..(f - 1) : ~HasMatch(FileLines(g), table_type)
FirstMatchChunk ==
  LET lines == FileLines(FirstMatchFile)
      p == CHOOSE i \in 1..Len(lines) :
             /\ MatchesType(lines[i], table_type)
             /\ \A j \in 1..(i - 1) : ~MatchesType(lines[j], table_type)
      k == (p - 1) \div CHUNK_SIZE
  IN  SubSeq(lines, k * CHUNK_SIZE + 1, Min((k + 1) * CHUNK_SIZE, Len(lines)))
FirstBatchSchema ==
  build_table(Matching(FirstMatchChunk, table_type, 1), Config, records_dtype).schema

\* C2: the schema is set with the opening of the writer, it is the schema of
\* the first non-empty batch of the run and stays so, every batch written
\* has that schema (names, order, types) with every value of its column's type,
\* and a run that met a batch it could not cast has failed.
C2_SchemaStability ==
  /\ (arrow_schema = NoSchema) <=> (parquet_writer = None)
  /\ arrow_schema # NoSchema =>
       /\ \E f \in 1..Len(cat_files) : HasMatch(FileLines(f), table_type)
       /\ arrow_schema = FirstBatchSchema
  /\ \A b \in 1..Len(written) :
       /\ written[b].schema = arrow_schema
       /\ \A r \in 1..Len(written[b].rows) : \A i \in 1..Len(arrow_schema) :
            Conforms(written[b].rows[r][i], arrow_schema[i].type)
  /\ error = "ArrowInvalid" =>
       /\ pc = "failed"
       /\ Len(written) = Cardinality(ProcessedWithMatch) - 1
       /\ LET batch == build_table(chunk, Config, records_dtype)
          IN  \E r \in 1..Len(batch.rows) : \E i \in 1..Len(arrow_schema) :
                ~Conforms(batch.rows[r][i], arrow_schema[i].type)

\* Two batches written, the second holding a null in a column the first batch
\* fixed as int64: the second batch was cast.
C2_Witness ==
  /\ Len(written) >= 2
  /\ \E i \in 1..Len(arrow_schema) :
       /\ arrow_schema[i].type = "int64"
       /\ written[2].rows[1][i].k = "null"

\* C5: with one input file, the run ends as the run with the whole file in one
\* chunk does: it completes, with the same schema and the same rows in order.
C5_ChunkBoundaryTransparency ==
  (total_files = 1 /\ (pc = "done" \/ error = "ArrowInvalid")) =>
    LET lines == Matching(FileLines(1), table_type, 1)
        whole == build_table(lines, Config, records_dtype)
    IN  /\ pc = "done"
        /\ lines # << >> => arrow_schema = whole.schema /\ AllRows = whole.rows
        /\ lines = << >> => written = << >>

\* C6: the lines decoded are the lines of the chunk that start with the
\* requested type, in order; a chunk without such a line leaves no trace: a
\* batch is written, and the schema and the writer exist, only for chunks that
\* hold one.
C6_FilterExactness ==
  /\ pc = "process" => chunk = LastYielded
  /\ (pc # "process" /\ YieldedAll # << >>) =>
       chunk = Matching(LastYielded, table_type, 1)
  /\ Len(written)
       + (IF error \in { "ArrowInvalid", "OSError writing" } THEN 1 ELSE 0)
       = Cardinality(ProcessedWithMatch)
  /\ (ProcessedWithMatch = {}) <=> (arrow_schema = NoSchema /\ parquet_writer = None)

\* A chunk was skipped, and the last chunk processed held lines of the type
\* and lines of another type.
C6_Witness ==
  /\ pc # "process"
  /\ YieldedAll # << >>
  /\ ProcessedWithoutMatch # {}
  /\ chunk # << >>
  /\ Len(chunk) < Len(LastYielded)
  /\ written # << >>

\* C7: no text column of a written batch holds an empty or all-whitespace
\* string: such a value is null.
C7_NullNormalization ==
  \A b \in 1..Len(written) : \A r \in 1..Len(written[b].rows) :
    \A i \in 1..Len(written[b].schema) :
      written[b].schema[i].type = "string" =>
        LET cell == written[b].rows[r][i]
        IN  ~(cell.k = "str" /\ \A j \in 1..Len(cell.s) : cell.s[j] \in WHITESPACE)

\* C9: the buffer never holds more than CHUNK_SIZE lines; every yielded chunk
\* has between 1 and CHUNK_SIZE lines, and exactly CHUNK_SIZE unless it is the
\* last of its file; the chunks of a file followed by the lines still in the
\* buffer are the lines read from the file, in order, each once.
C9_ChunkedReader ==
  /\ Len(buffer) <= CHUNK_SIZE
  /\ \A f \in 1..total_files :
       LET ys == yielded[f]
           open == f = index /\ gen \in { "running", "yield_full" }
           pending == IF f = index /\ gen = "running" THEN buffer ELSE << >>
       IN  /\ \A k \in 1..Len(ys) :
                /\ Len(ys[k]) >= 1
                /\ Len(ys[k]) <= CHUNK_SIZE
                /\ (k < Len(ys) \/ open) => Len(ys[k]) = CHUNK_SIZE
           /\ Flatten(ys, 1) \o pending = FileLines(f)

\* A file read to its end in a full chunk and a smaller last one.
C9_Witness ==
  /\ index >= 1
  /\ gen = "exhausted"
  /\ Len(yielded[index]) >= 2
  /\ Len(yielded[index][Len(yielded[index])]) < CHUNK_SIZE

\* What the row of a line holds in a column of the schema.
ScaleOf(name) ==
  IF name \in Names(Config.centroid_cols) THEN 2
  ELSE IF name \in Names(Config.percent_cols) THEN 3 ELSE 0
RowShows(row, ln) ==
  \A i \in 1..Len(arrow_schema) :
    LET name == arrow_schema[i].name
        j == CHOOSE c \in 1..Len(Config.columns) : Config.columns[c] = name
        span == Span(ln, Offsets(ln)[j], Offsets(ln)[j + 1])
        cell == row[i]
    IN  IF arrow_schema[i].type = "string"
        THEN IsStripOf(cell.s, span) /\ (cell.k = "null" => cell.s = << >>)
        ELSE \E v \in { to_numeric_value(strip(span)) } :
               /\ cell.k = v.cell.k
               /\ cell.k = "num" =>
                    cell = Num(v.cell.m, v.cell.e + ScaleOf(name))

\* C10: when the run has completed, the rows written are, in order, one row per
\* line of the requested type: those of the first file in line order, then
\* those of the next file, and so on, and no other row.
C10_RowsInFileThenChunkOrder ==
  pc = "done" =>
    /\ Len(AllRows) = Len(MatchingLines)
    /\ \A k \in 1..Len(AllRows) : RowShows(AllRows[k], MatchingLines[k])

\* A completed run over two files that both hold lines of the type, with a
\* line of another type or of other values among them.
C10_Witness ==
  /\ pc = "done"
  /\ total_files = 2
  /\ HasMatch(FileLines(1), table_type)
  /\ HasMatch(FileLines(2), table_type)
  /\ Len(written) >= 2
  /\ \E k \in 1..Len(AllRows) : AllRows[k] # AllRows[1]

-----------------------------------------------------------------------------
(* Properties of the layouts and of split_fixed_width (SpecDecode).        *)

\* C3: the layout of every supported table has one name per span, that is
\* len(positions) + 1 names.
C3_NamesMatchSpans ==
  table_type \in SUPPORTED_TABLES =>
    Len(Config.columns) = Len(split_values(line, Config.positions))

\* C4: every name of drop_cols, numeric_cols, centroid_cols and percent_cols
\* is one of the columns of the layout.
C4_SetsWithinColumns ==
  table_type \in SUPPORTED_TABLES =>
    /\ Config.drop_cols \subseteq Names(Config.columns)
    /\ Names(Config.numeric_cols) \subseteq Names(Config.columns)
    /\ Names(Config.centroid_cols) \subseteq Names(Config.columns)
    /\ Names(Config.percent_cols) \subseteq Names(Config.columns)

\* C8: for a line of any length the decoder returns one field per name of the
\* layout, field i being the characters of the line from offset i-1 to offset
\* i (those that exist) without the whitespace at their ends.
C8_OffsetInvariant ==
  pc = "decoded" =>
    /\ fields.keys = Config.columns
    /\ Len(fields.values) = Len(Config.columns)
    /\ \A i \in 1..Len(Config.columns) :
         IsStripOf(fields.values[i], Span(line, Offsets(line)[i], Offsets(line)[i + 1]))

\* A line that ends inside the layout: a field cut short by the end of the
\* line, and empty fields after it.
C8_Witness ==
  /\ pc = "decoded"
  /\ Len(line) < Config.positions[Len(Config.positions)]
  /\ \E i \in 1..(Len(Config.positions) - 1) :
       /\ Config.positions[i] < Len(line)
       /\ Len(line) < Config.positions[i + 1]
       /\ fields.values[i + 1] # << >>
       /\ fields.values[i + 2] = << >>

=============================================================================
